---- MODULE Spec2Model ----
(***************************************************************************)
(* Model of discord_stats.py: parse_package (archive reader, channel       *)
(* resolver, message normaliser), compute_stats (statistics aggregator)    *)
(* and the step of build_html that can fail.                               *)
(*                                                                         *)
(* Representation of Python values:                                        *)
(*  - a str that the code cuts, searches or concatenates (index hint,      *)
(*    channel name, guild name, channel id, display, group) is a sequence  *)
(*    of one-character strings;                                            *)
(*  - a timestamp is the sequence of its fixed-width, zero-padded numeric  *)
(*    fields <<year, month, day, hour>> (minutes and seconds are 00), the  *)
(*    empty sequence being the empty/absent timestamp; a shorter sequence  *)
(*    is a truncated string.  Comparing such strings character by          *)
(*    character is comparing the field sequences lexicographically, and    *)
(*    ts[:10] is the first three fields;                                   *)
(*  - message contents are a sequence of atoms (maximal non-blank pieces   *)
(*    of text), each atom a TLA+ string; what the regular expressions find *)
(*    in an atom is given by WordsIn, UnicodeEmojiIn and CustomEmojiIn.    *)
(***************************************************************************)
EXTENDS Integers, Sequences, FiniteSets, TLC

VARIABLES
    pc,            \* the position in main: which step runs next
    exc,           \* the exception that ended the run, if one did
    namelist,      \* zf.namelist(): the names of the archive
    index,         \* parse_package: index
    user,          \* parse_package: user
    pending,       \* the part of sorted(channel_dirs) the loop has not reached
    channels,      \* parse_package: channels
    all_messages,  \* parse_package: all_messages
    meta,          \* loop locals of the channel handled last
    idx_val,
    channel_id,
    display,
    group,
    read_log,      \* what the archive held for each channel folder read, and
                   \* what was read from it (metadata doc, message list)
    stats          \* the result of compute_stats

vars == <<pc, exc, namelist, index, user, pending, channels, all_messages,
          meta, idx_val, channel_id, display, group, read_log, stats>>

(***************************************************************************)
(* Generic sequence helpers                                                *)
(***************************************************************************)
Range(s) == {s[i] : i \in 1..Len(s)}

\* all sequences over S of length at most n
SeqsUpTo(S, n) == UNION {[1..k -> S] : k \in 0..n}

RECURSIVE SumSeq(_)
SumSeq(s) == IF s = <<>> THEN 0 ELSE Head(s) + SumSeq(Tail(s))

RECURSIVE Concat(_)
\* concatenation of a sequence of sequences
Concat(ss) == IF ss = <<>> THEN <<>> ELSE Head(ss) \o Concat(Tail(ss))

Take(s, n) == SubSeq(s, 1, IF n < Len(s) THEN n ELSE Len(s))

Drop(s, n) == SubSeq(s, n + 1, Len(s))

\* Python str/list comparison of sequences of integers: lexicographic, a
\* proper prefix being smaller
RECURSIVE LexLess(_, _)
LexLess(a, b) ==
    IF b = <<>> THEN FALSE
    ELSE IF a = <<>> THEN TRUE
    ELSE IF Head(a) # Head(b) THEN Head(a) < Head(b)
    ELSE LexLess(Tail(a), Tail(b))

LexLeq(a, b) == a = b \/ LexLess(a, b)

RECURSIVE SortedSet(_)
\* sorted(set) for a set of integer sequences (strings)
SortedSet(S) ==
    IF S = {} THEN <<>>
    ELSE LET m == CHOOSE x \in S : \A y \in S : LexLeq(x, y)
         IN  <<m>> \o SortedSet(S \ {m})

(***************************************************************************)
(* Strings as sequences of characters                                      *)
(***************************************************************************)
\* the characters used, in code-point order
CharOrder == <<" ", "#", "0", "1", "2", "9", "S", "a", "g", "i", "n">>

Ord(c) == CHOOSE i \in 1..Len(CharOrder) : CharOrder[i] = c

Digits == {"0", "1", "2", "9"}

\* Python str comparison: by code point, a proper prefix being smaller
RECURSIVE StrLess(_, _)
StrLess(a, b) ==
    IF b = <<>> THEN FALSE
    ELSE IF a = <<>> THEN TRUE
    ELSE IF Head(a) # Head(b) THEN Ord(Head(a)) < Ord(Head(b))
    ELSE StrLess(Tail(a), Tail(b))

StrLeq(a, b) == a = b \/ StrLess(a, b)

RECURSIVE SortedStrs(_)
\* sorted(S) for a set of strings
SortedStrs(S) ==
    IF S = {} THEN <<>>
    ELSE LET m == CHOOSE x \in S : \A y \in S : StrLeq(x, y)
         IN  <<m>> \o SortedStrs(S \ {m})

StartsWith(s, p) == Len(s) >= Len(p) /\ SubSeq(s, 1, Len(p)) = p

\* s.find(sep): the least 1-based position where sep occurs in s, 0 if none
Find(s, sep) ==
    LET hits == {i \in 1..(Len(s) - Len(sep) + 1) : SubSeq(s, i, i + Len(sep) - 1) = sep}
    IN  IF hits = {} THEN 0 ELSE CHOOSE i \in hits : \A j \in hits : i <= j

RECURSIVE Replace(_, _)
\* s.replace(p, ""): every non-overlapping occurrence of p removed, left to right
Replace(s, p) ==
    LET i == Find(s, p)
    IN  IF i = 0 THEN s
        ELSE SubSeq(s, 1, i - 1) \o Replace(Drop(s, i + Len(p) - 1), p)

\* string literals of parse_package
DMPrefix == <<"D", "i", "r", "e", "c", "t", " ", "M", "e", "s", "s", "a", "g", "e", " ", "w", "i", "t", "h", " ">>

SepIn == <<" ", "i", "n", " ">>

Hash == <<"#">>

DirectMessages == <<"D", "i", "r", "e", "c", "t", " ", "M", "e", "s", "s", "a", "g", "e", "s">>

GroupDMs == <<"G", "r", "o", "u", "p", " ", "D", "M", "s">>

GroupDMPlaceholder == <<"G", "r", "o", "u", "p", " ", "D", "M">>

UnknownServer == <<"U", "n", "k", "n", "o", "w", "n", " ", "S", "e", "r", "v", "e", "r">>

(***************************************************************************)
(* Python dicts are functions whose domain is the set of keys present      *)
(***************************************************************************)
EmptyDict == <<>>

\* d.get(k, default)
Get(d, k, default) == IF k \in DOMAIN d THEN d[k] ELSE default

\* the value None of a "type" field (JSON null)
NoneType == "<None>"

(***************************************************************************)
(* parse_package: channel resolution (lines 60-83)                         *)
(***************************************************************************)
ChType(m) == Get(m, "type", "UNKNOWN")

GuildName(m) ==
    LET guild == Get(m, "guild", EmptyDict)
    IN  IF DOMAIN guild # {} THEN Get(guild, "name", <<>>) ELSE <<>>

ChName(m) == Get(m, "name", <<>>)

IsDigits(s) == s # <<>> /\ \A i \in 1..Len(s) : s[i] \in Digits

\* re.match(r"Direct Message with (.+?)(?:#\d+)?$", hint): group(1) of the
\* match, the non-greedy name being the shortest non-empty text after the
\* prefix that is followed by the end of the hint or by "#digits" and the end
DMMatches(hint) == StartsWith(hint, DMPrefix) /\ Len(hint) > Len(DMPrefix)

DMGroup1(hint) ==
    LET rest == Drop(hint, Len(DMPrefix))
        ends == {k \in 1..Len(rest) :
                    \/ k = Len(rest)
                    \/ rest[k + 1] = "#" /\ IsDigits(Drop(rest, k + 1))}
        k    == CHOOSE e \in ends : \A f \in ends : e <= f
    IN  Take(rest, k)

FriendName(hint) ==
    IF DMMatches(hint) THEN DMGroup1(hint) ELSE Replace(hint, DMPrefix)

\* a resolver that takes the guild name of the metadata when there is one
\* and falls back to the hint only without it
Resolve_GuildNameFirst(m, hint, cid) ==
    LET ch_type == ChType(m)
        ch_name == ChName(m)
        guild_name == GuildName(m)
    IN  IF ch_type = "DM"
        THEN [display |-> FriendName(hint), group |-> DirectMessages]
        ELSE IF ch_type = "GROUP_DM"
        THEN [display |-> IF ch_name # <<>> THEN ch_name
                          ELSE IF hint # <<>> THEN hint
                          ELSE GroupDMPlaceholder,
              group |-> GroupDMs]
        ELSE IF guild_name = <<>> /\ Find(hint, SepIn) # 0
        THEN LET i == Find(hint, SepIn)
             IN  [display |-> Hash \o SubSeq(hint, 1, i - 1),
                  group |-> Drop(hint, i + Len(SepIn) - 1)]
        ELSE [display |-> IF ch_name # <<>> THEN Hash \o ch_name ELSE Hash \o cid,
              group |-> IF guild_name # <<>> THEN guild_name ELSE UnknownServer]

\* the display name and group of one channel
Resolve(m, hint, cid) ==
    LET ch_type == ChType(m)
        ch_name == ChName(m)
        guild_name == GuildName(m)
    IN  IF ch_type = "DM"
        THEN [display |-> FriendName(hint), group |-> DirectMessages]
        ELSE IF ch_type = "GROUP_DM"
        THEN [display |-> IF ch_name # <<>> THEN ch_name
                          ELSE IF hint # <<>> THEN hint
                          ELSE GroupDMPlaceholder,
              group |-> GroupDMs]
        ELSE IF Find(hint, SepIn) # 0
        THEN LET i == Find(hint, SepIn)
             IN  [display |-> Hash \o SubSeq(hint, 1, i - 1),
                  group |-> Drop(hint, i + Len(SepIn) - 1)]
        ELSE [display |-> IF ch_name # <<>> THEN Hash \o ch_name ELSE Hash \o cid,
              group |-> IF guild_name # <<>> THEN guild_name ELSE UnknownServer]

\* lines 85-88: every message of the channel gets the three tags
TagMessage(msg, disp, grp, ch_type) ==
    [k \in DOMAIN msg \cup {"_channel", "_group", "_type"} |->
        IF k = "_channel" THEN disp
        ELSE IF k = "_group" THEN grp
        ELSE IF k = "_type" THEN ch_type
        ELSE msg[k]]

\* a normaliser that hands the channel's messages over last one first
TagAll_Reversed(msgs, disp, grp, ch_type) ==
    [i \in 1..Len(msgs) |-> TagMessage(msgs[Len(msgs) + 1 - i], disp, grp, ch_type)]

TagAll(msgs, disp, grp, ch_type) ==
    [i \in 1..Len(msgs) |-> TagMessage(msgs[i], disp, grp, ch_type)]

\* a summary that counts only the messages with contents
ChannelSummary_CountsText(cid, m, hint, msgs) ==
    LET r == Resolve(m, hint, cid)
        HasText(msg) == Get(msg, "Contents", <<>>) # <<>>
    IN  [id |-> cid, name |-> r.display, group |-> r.group, type |-> ChType(m),
         message_count |-> Len(SelectSeq(msgs, HasText))]

\* lines 91-98: the channel summary
ChannelSummary(cid, m, hint, msgs) ==
    LET r == Resolve(m, hint, cid)
    IN  [id |-> cid, name |-> r.display, group |-> r.group, type |-> ChType(m),
         message_count |-> Len(msgs)]

(***************************************************************************)
(* compute_stats: counters and rankings                                    *)
(***************************************************************************)
\* program constants: the caps of the ranking lists
TopDMs == 25

TopGroupDMs == 15

TopServers == 20

TopChannels == 20

TopWords == 30

TopEmoji == 20

\* a Counter / defaultdict(int) is the sequence of its [key, count] items in
\* insertion order (the order dict iteration follows)
AddTo(counter, k, n) ==
    IF \E i \in 1..Len(counter) : counter[i].key = k
    THEN LET i == CHOOSE j \in 1..Len(counter) : counter[j].key = k
         IN  [counter EXCEPT ![i].count = @ + n]
    ELSE Append(counter, [key |-> k, count |-> n])

RECURSIVE CountInto(_, _)
\* counter[k] += 1 for every k of keys, in order
CountInto(counter, keys) ==
    IF keys = <<>> THEN counter
    ELSE CountInto(AddTo(counter, Head(keys), 1), Tail(keys))

CounterGet(counter, k) ==
    IF \E i \in 1..Len(counter) : counter[i].key = k
    THEN (CHOOSE e \in Range(counter) : e.key = k).count
    ELSE 0

\* an entry inserted ahead of the entries of its own count
InsertDesc_AheadOfTies(sorted, e) ==
    LET ahead == {i \in 1..Len(sorted) : sorted[i].count > e.count}
        k == IF ahead = {} THEN 0 ELSE CHOOSE i \in ahead : \A j \in ahead : j <= i
    IN  SubSeq(sorted, 1, k) \o <<e>> \o SubSeq(sorted, k + 1, Len(sorted))

\* list.sort(key=lambda x: -x["count"]): stable, descending by count.  One
\* entry is inserted behind every entry whose count is at least its own.
InsertDesc(sorted, e) ==
    LET ahead == {i \in 1..Len(sorted) : sorted[i].count >= e.count}
        k == IF ahead = {} THEN 0 ELSE CHOOSE i \in ahead : \A j \in ahead : j <= i
    IN  SubSeq(sorted, 1, k) \o <<e>> \o SubSeq(sorted, k + 1, Len(sorted))

RECURSIVE SortDescFrom(_, _)
SortDescFrom(sorted, rest) ==
    IF rest = <<>> THEN sorted
    ELSE SortDescFrom(InsertDesc(sorted, Head(rest)), Tail(rest))

SortDesc(s) == SortDescFrom(<<>>, s)

\* Counter.most_common(n): sorted(items, key=count, reverse=True)[:n]
MostCommon(counter, n) == Take(SortDesc(counter), n)

IsGuildType(t) == t # "DM" /\ t # "GROUP_DM"

\* lines 121-127
dm_counts(chs) ==
    LET Keep(c) == c.type = "DM" /\ c.message_count > 0
        kept == SelectSeq(chs, Keep)
    IN  [i \in 1..Len(kept) |-> [name |-> kept[i].name, count |-> kept[i].message_count]]

\* lines 129-135
gdm_counts(chs) ==
    LET Keep(c) == c.type = "GROUP_DM" /\ c.message_count > 0
        kept == SelectSeq(chs, Keep)
    IN  [i \in 1..Len(kept) |-> [name |-> kept[i].name, count |-> kept[i].message_count]]

RECURSIVE server_msgs(_, _)
\* lines 138-141
server_msgs(acc, chs) ==
    IF chs = <<>> THEN acc
    ELSE IF IsGuildType(Head(chs).type)
    THEN server_msgs(AddTo(acc, Head(chs).group, Head(chs).message_count), Tail(chs))
    ELSE server_msgs(acc, Tail(chs))

\* a server ranking that is not cut to its cap
top_servers_Uncapped(chs) ==
    LET Keep(e) == e.count > 0
        items == SelectSeq(server_msgs(<<>>, chs), Keep)
    IN  SortDesc([i \in 1..Len(items) |->
                    [name |-> items[i].key, count |-> items[i].count]])

\* lines 142-145
top_servers(chs) ==
    LET Keep(e) == e.count > 0
        items == SelectSeq(server_msgs(<<>>, chs), Keep)
    IN  Take(SortDesc([i \in 1..Len(items) |->
                         [name |-> items[i].key, count |-> items[i].count]]), TopServers)

\* lines 148-157
ch_counts(chs) ==
    LET Keep(c) == IsGuildType(c.type) /\ c.message_count > 0
        kept == SelectSeq(chs, Keep)
    IN  [i \in 1..Len(kept) |->
            [name |-> kept[i].name, server |-> kept[i].group, count |-> kept[i].message_count]]

(***************************************************************************)
(* compute_stats: timestamps (datetime.strptime, lines 167-183)            *)
(***************************************************************************)
IsLeap(y) == (y % 4 = 0 /\ y % 100 # 0) \/ y % 400 = 0

DaysInMonth(y, m) ==
    IF m = 2 THEN (IF IsLeap(y) THEN 29 ELSE 28)
    ELSE IF m \in {4, 6, 9, 11} THEN 30 ELSE 31

\* strptime(s, "%Y-%m-%d") accepts exactly the three-field strings naming a
\* day of the calendar
ValidDate(d) ==
    /\ Len(d) = 3
    /\ d[1] \in 1..9999
    /\ d[2] \in 1..12
    /\ d[3] \in 1..DaysInMonth(d[1], d[2])

\* strptime(ts[:19], "%Y-%m-%d %H:%M:%S") succeeds
Parsable(ts) ==
    /\ Len(ts) >= 4
    /\ ValidDate(SubSeq(ts, 1, 3))
    /\ ts[4] \in 0..23

RECURSIVE DaysBeforeMonth(_, _)
DaysBeforeMonth(y, m) ==
    IF m = 1 THEN 0 ELSE DaysBeforeMonth(y, m - 1) + DaysInMonth(y, m - 1)

\* date.toordinal(): 0001-01-01 is day 1
Ordinal(d) ==
    LET y == d[1] - 1
    IN  y * 365 + (y \div 4) - (y \div 100) + (y \div 400)
          + DaysBeforeMonth(d[1], d[2]) + d[3]

\* date.weekday(): Monday is 0
Weekday(d) == (Ordinal(d) + 6) % 7

dow_names == <<"Mon", "Tue", "Wed", "Thu", "Fri", "Sat", "Sun">>

Timestamp(msg) == Get(msg, "Timestamp", <<>>)

\* ts[:10]
DateOf(ts) == Take(ts, 3)

\* the messages the loop of lines 167-178 does not skip
Timed(msgs) ==
    LET Keep(msg) == Timestamp(msg) # <<>> /\ Parsable(Timestamp(msg))
    IN  SelectSeq(msgs, Keep)

monthly(msgs) ==
    LET t == Timed(msgs)
    IN  CountInto(<<>>, [i \in 1..Len(t) |-> SubSeq(Timestamp(t[i]), 1, 2)])

hourly(msgs) ==
    LET t == Timed(msgs)
    IN  CountInto(<<>>, [i \in 1..Len(t) |-> Timestamp(t[i])[4]])

daily_dow(msgs) ==
    LET t == Timed(msgs)
    IN  CountInto(<<>>, [i \in 1..Len(t) |-> Weekday(DateOf(Timestamp(t[i])))])

yearly(msgs) ==
    LET t == Timed(msgs)
    IN  CountInto(<<>>, [i \in 1..Len(t) |-> <<Timestamp(t[i])[1]>>])

RECURSIVE SortedItems(_)
\* sorted(counter.items()) for keys that are integer sequences
SortedItems(counter) ==
    IF counter = <<>> THEN <<>>
    ELSE LET i == CHOOSE j \in 1..Len(counter) :
                    \A k \in 1..Len(counter) : LexLeq(counter[j].key, counter[k].key)
         IN  <<counter[i]>> \o
             SortedItems(SubSeq(counter, 1, i - 1) \o SubSeq(counter, i + 1, Len(counter)))

\* the hours taken from range(1, 25)
HourlyList_From1(hours) ==
    [i \in 1..24 |-> [key |-> i, count |-> CounterGet(hours, i)]]

\* line 181: [(h, hourly.get(h, 0)) for h in range(24)]
HourlyList(hours) ==
    [i \in 1..24 |-> [key |-> i - 1, count |-> CounterGet(hours, i - 1)]]

\* line 182: [(dow_names[d], daily_dow.get(d, 0)) for d in range(7)]
DowList(dows) ==
    [i \in 1..7 |-> [key |-> dow_names[i], count |-> CounterGet(dows, i - 1)]]

(***************************************************************************)
(* compute_stats: contents (lines 185-258)                                 *)
(***************************************************************************)
\* An atom is a maximal non-blank piece of contents.  "U+1F600" and
\* "U+1F525" stand for the single characters of those code points.
\* len(atom) in characters
AtomLen(a) == IF a \in {"U+1F600", "U+1F525"} THEN 1 ELSE Len(a)

\* re.findall(r"[a-zA-Z']+", atom.lower())
WordsIn(a) ==
    CASE a = "Hi" -> <<"hi">>
      [] a = "there!" -> <<"there">>
      [] a = ":custom_emoji:" -> <<"custom", "emoji">>
      [] a = "yo" -> <<"yo">>
      [] a = ":yo:" -> <<"yo">>
      [] a = "x" -> <<"x">>
      [] OTHER -> <<>>

\* emoji_pattern.findall(atom)
UnicodeEmojiIn(a) == IF a \in {"U+1F600", "U+1F525"} THEN <<a>> ELSE <<>>

\* discord_emoji_pattern.findall(atom)
CustomEmojiIn(a) == IF a \in {":custom_emoji:", ":yo:"} THEN <<a>> ELSE <<>>

stopwords ==
    {"the", "a", "an", "is", "are", "was", "were", "be", "been", "being",
     "have", "has", "had", "do", "does", "did", "will", "would", "could",
     "should", "may", "might", "shall", "can", "to", "of", "in", "for",
     "on", "with", "at", "by", "from", "as", "into", "through", "during",
     "before", "after", "and", "but", "or", "nor", "not", "so", "yet",
     "both", "either", "neither", "each", "every", "all", "any", "few",
     "more", "most", "other", "some", "such", "no", "only", "own", "same",
     "than", "too", "very", "just", "i", "me", "my", "we", "our", "you",
     "your", "he", "him", "his", "she", "her", "it", "its", "they", "them",
     "their", "what", "which", "who", "whom", "this", "that", "these",
     "those", "am", "if", "then", "else", "when", "up", "out", "about",
     "how", "why", "where", "there", "here", "also", "like", "oh", "im",
     "ok", "yeah", "dont", "thats", "lol", "omg", "u", "ur"}

Contents(msg) == Get(msg, "Contents", <<>>)

\* the messages with non-empty contents
WithText(msgs) ==
    LET Keep(msg) == Contents(msg) # <<>>
    IN  SelectSeq(msgs, Keep)

\* len(contents): the atoms and one blank between neighbours
TextLen(text) ==
    SumSeq([i \in 1..Len(text) |-> AtomLen(text[i])]) + (Len(text) - 1)

lengths(msgs) ==
    LET t == WithText(msgs)
    IN  [i \in 1..Len(t) |-> TextLen(Contents(t[i]))]

RECURSIVE MaxSeq(_)
MaxSeq(s) ==
    IF Len(s) = 1 THEN s[1]
    ELSE LET m == MaxSeq(Tail(s)) IN IF Head(s) >= m THEN Head(s) ELSE m

\* round(total / n, 1) in tenths; a tie goes to the even tenth
RoundTenths(total, n) ==
    LET q == (10 * total) \div n
        r == (10 * total) % n
    IN  IF 2 * r < n THEN q
        ELSE IF 2 * r > n THEN q + 1
        ELSE IF q % 2 = 0 THEN q ELSE q + 1

\* the words line 226 counts, in the order met
CountedWords(text) ==
    LET all == Concat([i \in 1..Len(text) |-> WordsIn(text[i])])
        Keep(w) == Len(w) >= 2 /\ w \notin stopwords
    IN  SelectSeq(all, Keep)

word_counter(msgs) ==
    LET t == WithText(msgs)
    IN  CountInto(<<>>, Concat([i \in 1..Len(t) |-> CountedWords(Contents(t[i]))]))

\* lines 254-257: in one message first every match of emoji_pattern, then
\* every match of discord_emoji_pattern
EmojiMatches(text) ==
    Concat([i \in 1..Len(text) |-> UnicodeEmojiIn(text[i])])
      \o Concat([i \in 1..Len(text) |-> CustomEmojiIn(text[i])])

emoji_counter(msgs) ==
    LET t == WithText(msgs)
    IN  CountInto(<<>>, Concat([i \in 1..Len(t) |-> EmojiMatches(Contents(t[i]))]))

HasAttachments(msg) == Get(msg, "Attachments", FALSE)

attachment_count(msgs) == Len(SelectSeq(msgs, HasAttachments))

(***************************************************************************)
(* compute_stats: streak, first and last message, busiest day              *)
(***************************************************************************)
\* the messages with a non-empty timestamp (msg.get("Timestamp") is truthy)
Stamped(msgs) ==
    LET Keep(msg) == Timestamp(msg) # <<>>
    IN  SelectSeq(msgs, Keep)

\* lines 261-265
msg_dates(msgs) == {DateOf(Timestamp(m)) : m \in Range(Stamped(msgs))}

\* line 266
sorted_dates(msgs) == SortedSet(msg_dates(msgs))

\* lines 267-270
StreakInit(dates) ==
    [longest_streak |-> 0, current_streak |-> 1,
     streak_start |-> IF dates # <<>> THEN dates[1] ELSE <<>>,
     best_streak_start |-> IF dates # <<>> THEN dates[1] ELSE <<>>,
     raised |-> FALSE]

\* lines 272-281: one iteration of the loop, i being the 0-based index
StreakIter(st, dates, i) ==
    IF ~ValidDate(dates[i]) \/ ~ValidDate(dates[i + 1])
    THEN [st EXCEPT !.raised = TRUE]
    ELSE IF Ordinal(dates[i + 1]) - Ordinal(dates[i]) = 1
    THEN [st EXCEPT !.current_streak = @ + 1]
    ELSE [st EXCEPT !.longest_streak =
                        IF st.current_streak > @ THEN st.current_streak ELSE @,
                    !.best_streak_start =
                        IF st.current_streak > st.longest_streak THEN st.streak_start ELSE @,
                    !.current_streak = 1,
                    !.streak_start = dates[i + 1]]

RECURSIVE StreakLoop(_, _, _)
\* lines 271-281: for i in range(1, len(sorted_dates))
StreakLoop(st, dates, i) ==
    IF i >= Len(dates) \/ st.raised THEN st
    ELSE StreakLoop(StreakIter(st, dates, i), dates, i + 1)

\* the last run taken when it is as long as the longest, not only when longer
StreakFinish_TakesTie(st) ==
    IF st.raised THEN st
    ELSE [st EXCEPT !.longest_streak =
                        IF st.current_streak >= @ THEN st.current_streak ELSE @,
                    !.best_streak_start =
                        IF st.current_streak >= st.longest_streak THEN st.streak_start ELSE @]

\* lines 282-284
StreakFinish(st) ==
    IF st.raised THEN st
    ELSE [st EXCEPT !.longest_streak =
                        IF st.current_streak > @ THEN st.current_streak ELSE @,
                    !.best_streak_start =
                        IF st.current_streak > st.longest_streak THEN st.streak_start ELSE @]

Streak(msgs) ==
    LET dates == sorted_dates(msgs)
    IN  StreakFinish(StreakLoop(StreakInit(dates), dates, 1))

\* line 289
timestamps(msgs) ==
    LET t == Stamped(msgs)
    IN  [i \in 1..Len(t) |-> Timestamp(t[i])]

\* min(timestamps) and max(timestamps) of a non-empty list
MinTs(ts) == CHOOSE x \in Range(ts) : \A y \in Range(ts) : LexLeq(x, y)

MaxTs(ts) == CHOOSE x \in Range(ts) : \A y \in Range(ts) : LexLeq(y, x)

\* lines 300-304
day_counts(msgs) ==
    LET t == Stamped(msgs)
    IN  CountInto(<<>>, [i \in 1..Len(t) |-> DateOf(Timestamp(t[i]))])

\* lines 314-317: sum(hourly.get(h, 0) for h in range(lo, hi))
HourWindow(hours, lo, hi) ==
    SumSeq([i \in 1..(hi - lo) |-> CounterGet(hours, lo + i - 1)])

(***************************************************************************)
(* compute_stats: the result                                               *)
(***************************************************************************)
\* compute_stats raises ValueError (line 272 or 273)
StatsRaises(data) == Streak(data.messages).raised

compute_stats(data) ==
    LET chs == data.channels
        msgs == data.messages
        lens == lengths(msgs)
        st == Streak(msgs)
        ts == timestamps(msgs)
        days == day_counts(msgs)
        hours == hourly(msgs)
        texts == WithText(msgs)
    IN  [total_messages |-> Len(msgs),
         total_channels |-> Len(chs),
         total_dms |-> Cardinality({i \in 1..Len(chs) : chs[i].type = "DM"}),
         total_group_dms |-> Cardinality({i \in 1..Len(chs) : chs[i].type = "GROUP_DM"}),
         total_servers |->
             Cardinality({chs[i].group : i \in {j \in 1..Len(chs) : IsGuildType(chs[j].type)}}),
         top_dms |-> Take(SortDesc(dm_counts(chs)), TopDMs),
         top_group_dms |-> Take(SortDesc(gdm_counts(chs)), TopGroupDMs),
         top_servers |-> top_servers(chs),
         top_channels |-> Take(SortDesc(ch_counts(chs)), TopChannels),
         monthly |-> SortedItems(monthly(msgs)),
         hourly |-> HourlyList(hours),
         daily_dow |-> DowList(daily_dow(msgs)),
         yearly |-> SortedItems(yearly(msgs)),
         avg_msg_length |-> IF lens # <<>> THEN RoundTenths(SumSeq(lens), Len(lens)) ELSE 0,
         max_msg_length |-> IF lens # <<>> THEN MaxSeq(lens) ELSE 0,
         total_characters |-> SumSeq(lens),
         total_words |-> SumSeq([i \in 1..Len(texts) |-> Len(Contents(texts[i]))]),
         attachment_count |-> attachment_count(msgs),
         top_words |-> MostCommon(word_counter(msgs), TopWords),
         top_emoji |-> MostCommon(emoji_counter(msgs), TopEmoji),
         longest_streak |-> st.longest_streak,
         longest_streak_start |-> st.best_streak_start,
         first_message |-> IF ts # <<>> THEN MinTs(ts) ELSE <<>>,
         last_message |-> IF ts # <<>> THEN MaxTs(ts) ELSE <<>>,
         active_days |-> IF ts # <<>> THEN Cardinality(msg_dates(msgs)) ELSE 0,
         busiest_day |-> IF days # <<>> THEN MostCommon(days, 1)[1].key ELSE <<>>,
         busiest_day_count |-> IF days # <<>> THEN MostCommon(days, 1)[1].count ELSE 0,
         time_of_day |-> [night |-> HourWindow(hours, 0, 6),
                          morning |-> HourWindow(hours, 6, 12),
                          afternoon |-> HourWindow(hours, 12, 18),
                          evening |-> HourWindow(hours, 18, 24)]]

(***************************************************************************)
(* The archive: names of the zip file and what its entries hold            *)
(***************************************************************************)
\* bounds of the archives explored
MaxMsgs == 2

ChannelIds == {<<"1", "0">>, <<"9">>}

CDir(cid) == <<"c">> \o cid

\* an archive name "dir/sub/file" ("dir/file" when sub is empty)
IndexName == [dir |-> "Messages", sub |-> <<>>, file |-> "index.json"]

UserName == [dir |-> "Account", sub |-> <<>>, file |-> "user.json"]

MetaName(cdir) == [dir |-> "Messages", sub |-> cdir, file |-> "channel.json"]

MessagesName(cdir) == [dir |-> "Messages", sub |-> cdir, file |-> "messages.json"]

ArchiveNames ==
    {IndexName, UserName}
      \cup {MetaName(CDir(c)) : c \in ChannelIds}
      \cup {MessagesName(CDir(c)) : c \in ChannelIds}

\* all dicts with keys in K and values in V
Dicts(K, V) == UNION {[D -> V] : D \in SUBSET K}

GuildHint == <<"g", " ", "i", "n", " ", "S">>

IndexDocs == Dicts(ChannelIds, {GuildHint})

UserDocs == {[id |-> "42", username |-> "al"]}

\* what a channel.json can hold
MetaDocs ==
    {[id |-> "c", type |-> "DM"],
     [id |-> "c", type |-> "GROUP_DM", name |-> <<"g">>],
     [id |-> "c", type |-> "GUILD_TEXT", name |-> <<"g">>, guild |-> [id |-> "s", name |-> <<"S">>]],
     [id |-> "c"],
     [id |-> "c", type |-> ""],
     [id |-> "c", type |-> NoneType, guild |-> [id |-> "s"]]}

\* what one message of a messages.json can hold
MessageDocs ==
    {[ID |-> "m", Timestamp |-> <<2024, 2, 29, 23>>, Contents |-> <<"yo">>, Attachments |-> TRUE],
     [ID |-> "m", Timestamp |-> <<2024, 2, 30, 10>>]}

MessageLists == SeqsUpTo(MessageDocs, MaxMsgs)

(***************************************************************************)
(* parse_package, step by step                                             *)
(***************************************************************************)
NoExc == [type |-> "", at |-> ""]

Raise(type, at) ==
    /\ pc' = "raised"
    /\ exc' = [type |-> type, at |-> at]

locals == <<meta, idx_val, channel_id, display, group>>

Init ==
    /\ pc = "load_index"
    /\ exc = NoExc
    /\ namelist \in SUBSET ArchiveNames
    /\ index = EmptyDict
    /\ user = EmptyDict
    /\ pending = <<>>
    /\ channels = <<>>
    /\ all_messages = <<>>
    /\ meta = EmptyDict
    /\ idx_val = <<>>
    /\ channel_id = <<>>
    /\ display = <<>>
    /\ group = <<>>
    /\ read_log = <<>>
    /\ stats = EmptyDict

\* lines 18-23: the entry is absent (KeyError, caught) or holds a mapping
LoadIndex ==
    /\ pc = "load_index"
    /\ IF IndexName \notin namelist
       THEN index' = EmptyDict
       ELSE index' \in IndexDocs
    /\ pc' = "load_user"
    /\ UNCHANGED <<exc, namelist, user, pending, channels, all_messages, locals,
                   read_log, stats>>

\* line 21: json.load fails on an entry that is not JSON; only KeyError is caught
LoadIndexMalformed ==
    /\ pc = "load_index"
    /\ IndexName \in namelist
    /\ Raise("JSONDecodeError", "index.json")
    /\ UNCHANGED <<namelist, index, user, pending, channels, all_messages, locals,
                   read_log, stats>>

\* lines 26-33
LoadUser ==
    /\ pc = "load_user"
    /\ IF UserName \notin namelist
       THEN user' = EmptyDict
       ELSE user' \in UserDocs
    /\ pc' = "find_dirs"
    /\ UNCHANGED <<exc, namelist, index, pending, channels, all_messages, locals,
                   read_log, stats>>

\* line 29: as for the index
LoadUserMalformed ==
    /\ pc = "load_user"
    /\ UserName \in namelist
    /\ Raise("JSONDecodeError", "user.json")
    /\ UNCHANGED <<namelist, index, user, pending, channels, all_messages, locals,
                   read_log, stats>>

\* lines 36-39
channel_dirs ==
    {n.sub : n \in {x \in namelist : /\ x.dir = "Messages"
                                     /\ x.sub # <<>>
                                     /\ Head(x.sub) = "c"
                                     /\ x.file = "channel.json"}}

\* lines 36-44: the folders to visit, sorted
FindChannelDirs ==
    /\ pc = "find_dirs"
    /\ pending' = SortedStrs(channel_dirs)
    /\ pc' = "loop"
    /\ UNCHANGED <<exc, namelist, index, user, channels, all_messages, locals,
                   read_log, stats>>

\* a loop that goes on with an empty meta instead of leaving the iteration
SkipChannel_KeepsChannel ==
    /\ pc = "loop"
    /\ pending # <<>>
    /\ LET cdir == Head(pending)
       IN  /\ channel_id' = Tail(cdir)
           /\ channels' = Append(channels,
                  ChannelSummary(Tail(cdir), EmptyDict, Get(index, Tail(cdir), <<>>), <<>>))
           /\ read_log' = Append(read_log,
                  [cdir |-> cdir, meta |-> "malformed", messages |-> "unread", count |-> 0,
                   doc |-> EmptyDict, docs |-> <<>>])
    /\ pending' = Tail(pending)
    /\ UNCHANGED <<pc, exc, namelist, index, user, all_messages,
                   meta, idx_val, display, group, stats>>

\* lines 47-51: channel.json is absent or not JSON: continue
SkipChannel ==
    /\ pc = "loop"
    /\ pending # <<>>
    /\ LET cdir == Head(pending)
       IN  /\ channel_id' = Tail(cdir)
           /\ read_log' = Append(read_log,
                  [cdir |-> cdir,
                   meta |-> IF MetaName(cdir) \in namelist THEN "malformed" ELSE "missing",
                   messages |-> "unread", count |-> 0,
                   doc |-> EmptyDict, docs |-> <<>>])
    /\ pending' = Tail(pending)
    /\ UNCHANGED <<pc, exc, namelist, index, user, channels, all_messages,
                   meta, idx_val, display, group, stats>>

\* lines 53-58: messages.json read into messages; [] when absent or not JSON
ReadMessages(cdir, outcome, docs) ==
    IF MessagesName(cdir) \notin namelist THEN <<>>
    ELSE IF outcome = "malformed" THEN <<>>
    ELSE docs

\* lines 45-98: one channel whose channel.json is read
ProcessChannel ==
    /\ pc = "loop"
    /\ pending # <<>>
    /\ LET cdir == Head(pending)
           cid == Tail(cdir)
       IN  /\ MetaName(cdir) \in namelist
           /\ \E m \in MetaDocs, outcome \in {"ok", "malformed"}, docs \in MessageLists :
                LET messages == ReadMessages(cdir, outcome, docs)
                    hint == Get(index, cid, <<>>)
                    r == Resolve(m, hint, cid)
                IN  /\ outcome = "malformed" => docs = <<>>
                    /\ MessagesName(cdir) \notin namelist => (outcome = "ok" /\ docs = <<>>)
                    /\ channel_id' = cid
                    /\ meta' = m
                    /\ idx_val' = hint
                    /\ display' = r.display
                    /\ group' = r.group
                    /\ all_messages' =
                         all_messages \o TagAll(messages, r.display, r.group, ChType(m))
                    /\ channels' = Append(channels, ChannelSummary(cid, m, hint, messages))
                    /\ read_log' = Append(read_log,
                         [cdir |-> cdir, meta |-> "ok",
                          messages |-> IF MessagesName(cdir) \notin namelist THEN "missing"
                                       ELSE outcome,
                          count |-> Len(docs),
                          doc |-> m, docs |-> messages])
    /\ pending' = Tail(pending)
    /\ UNCHANGED <<pc, exc, namelist, index, user, stats>>

\* line 100
ReturnData ==
    /\ pc = "loop"
    /\ pending = <<>>
    /\ pc' = "parsed"
    /\ UNCHANGED <<exc, namelist, index, user, pending, channels, all_messages,
                   locals, read_log, stats>>

data == [channels |-> channels, messages |-> all_messages, user |-> user]

(***************************************************************************)
(* compute_stats as one step of main                                       *)
(***************************************************************************)
ComputeStats ==
    /\ pc = "parsed"
    /\ IF StatsRaises(data)
       THEN \* lines 272-273: strptime raises on a date that is not one
            /\ Raise("ValueError", "compute_stats")
            /\ stats' = stats
       ELSE /\ stats' = compute_stats(data)
            /\ pc' = "stats_done"
            /\ exc' = exc
    /\ UNCHANGED <<namelist, index, user, pending, channels, all_messages,
                   locals, read_log>>

(***************************************************************************)
(* build_html as the next step of main (lines 735-737)                     *)
(***************************************************************************)
\* line 548: sum(tod.values()), the divisor of the time-of-day share
TodTotal(tod) == tod.night + tod.morning + tod.afternoon + tod.evening

\* lines 328-715: the report is one formatted string; the only operation of
\* it that can fail on a result of compute_stats is the division of line 548
BuildHtml ==
    /\ pc = "stats_done"
    /\ IF TodTotal(stats.time_of_day) = 0
       THEN Raise("ZeroDivisionError", "build_html")
       ELSE /\ pc' = "report_done"
            /\ exc' = exc
    /\ UNCHANGED <<namelist, index, user, pending, channels, all_messages,
                   locals, read_log, stats>>

Next ==
    \/ LoadIndex
    \/ LoadIndexMalformed
    \/ LoadUser
    \/ LoadUserMalformed
    \/ FindChannelDirs
    \/ SkipChannel
    \/ ProcessChannel
    \/ ReturnData
    \/ ComputeStats
    \/ BuildHtml

Spec == Init /\ [][Next]_vars

(***************************************************************************)
(* compute_stats on its own: the streams it is given                       *)
(***************************************************************************)
\* bounds of the streams explored
MaxStamped == 4

MaxRanked == 3

MaxAtoms == 4

\* what parse_package returns for the channels ins, each [id, meta, hint, msgs]
ParsedData(ins) ==
    [channels |-> [i \in 1..Len(ins) |->
                      ChannelSummary(ins[i].id, ins[i].meta, ins[i].hint, ins[i].msgs)],
     messages |-> Concat([i \in 1..Len(ins) |->
                      LET r == Resolve(ins[i].meta, ins[i].hint, ins[i].id)
                      IN  TagAll(ins[i].msgs, r.display, r.group, ChType(ins[i].meta))]),
     user |-> EmptyDict]

RECURSIVE IdAt(_)
\* the i-th of the ascending channel ids "1", "11", "111", ...
IdAt(i) == IF i = 1 THEN <<"1">> ELSE Append(IdAt(i - 1), "1")

DMChannel(msgs) ==
    [id |-> <<"9">>, meta |-> [id |-> "c", type |-> "DM"],
     hint |-> DMPrefix \o <<"a">>, msgs |-> msgs]

\* timestamps: days around the end of February of a leap year, a day that
\* does not exist, an hour that does not exist and the empty string
Stamps ==
    {<<2024, 2, 28, 0>>, <<2024, 2, 29, 5>>, <<2024, 3, 1, 12>>, <<2024, 3, 3, 18>>,
     <<2024, 3, 4, 23>>, <<2024, 2, 30, 10>>, <<2024, 3, 1, 24>>, <<>>}

\* the dates 2024-01-01, 2024-01-02, 2024-01-03 and 2024-01-05
ExampleStamps == <<<<2024, 1, 1, 9>>, <<2024, 1, 2, 9>>, <<2024, 1, 3, 9>>, <<2024, 1, 5, 9>>>>

\* a stream of one channel whose messages carry the timestamps ts
StampedStream(ts) ==
    ParsedData(<<DMChannel([i \in 1..Len(ts) |-> [ID |-> "m", Timestamp |-> ts[i]]])>>)

\* channels to rank: a DM, a group DM, a channel of server "S" and one of
\* server "a"; the i-th channel has its own name
RankKinds == {"DM", "GROUP_DM", "S", "a"}

RankMeta(i, kind) ==
    IF kind = "DM" THEN [id |-> "c", type |-> "DM"]
    ELSE IF kind = "GROUP_DM"
    THEN [id |-> "c", type |-> "GROUP_DM", name |-> <<"g">> \o IdAt(i)]
    ELSE [id |-> "c", type |-> "GUILD_TEXT", name |-> <<"g">> \o IdAt(i),
          guild |-> [id |-> "s", name |-> <<kind>>]]

RankCounts == {0, 1, 2}

\* the channels picked: picks[i] is the kind and the message count of the i-th
RankInput(picks) ==
    [i \in 1..Len(picks) |->
        [id |-> IdAt(i), meta |-> RankMeta(i, picks[i][1]), hint |-> DMPrefix \o IdAt(i),
         msgs |-> [k \in 1..picks[i][2] |-> [ID |-> "m"]]]]

\* rankings at their caps: nd DMs, then ng group DMs, then ns + extra server
\* channels dealt out over ns servers in turn; a channel has 1 or 2 messages,
\* and with zero the first channel of each kind has none
MaxOver == 1

BulkMeta(i, kind, server) ==
    IF kind = "GUILD_TEXT"
    THEN [id |-> "c", type |-> "GUILD_TEXT", name |-> <<"g">> \o IdAt(i),
          guild |-> [id |-> "s", name |-> <<"S">> \o IdAt(server)]]
    ELSE RankMeta(i, kind)

BulkInput(nd, ng, ns, extra, zero) ==
    LET KindAt(i) == IF i <= nd THEN "DM"
                     ELSE IF i <= nd + ng THEN "GROUP_DM"
                     ELSE "GUILD_TEXT"
        ServerAt(i) == ((i - nd - ng - 1) % ns) + 1
        CountAt(i) == IF zero /\ i \in {1, nd + 1, nd + ng + 1} THEN 0 ELSE 1 + (i % 2)
    IN  [i \in 1..(nd + ng + ns + extra) |->
            [id |-> IdAt(i), meta |-> BulkMeta(i, KindAt(i), ServerAt(i)),
             hint |-> DMPrefix \o IdAt(i),
             msgs |-> [k \in 1..CountAt(i) |-> [ID |-> "m"]]]]

\* contents: every way to cut a text of at most MaxAtoms atoms into messages
TextAtoms == {"Hi", "there!", "U+1F600", ":custom_emoji:"}

RECURSIVE Cuts(_)
\* the sequences of non-empty pieces whose concatenation is text
Cuts(text) ==
    IF Len(text) = 0 THEN {<<>>}
    ELSE UNION {{<<SubSeq(text, 1, k)>> \o rest : rest \in Cuts(Drop(text, k))} :
                   k \in 1..Len(text)}

\* a stream of one channel whose messages have the contents cut
TextStream(cut) ==
    ParsedData(<<DMChannel([i \in 1..Len(cut) |-> [ID |-> "m", Contents |-> cut[i]]])>>)

\* compute_stats is given d
Given(d) ==
    /\ pc = "parsed"
    /\ exc = NoExc
    /\ namelist = {}
    /\ index = EmptyDict
    /\ user = EmptyDict
    /\ pending = <<>>
    /\ channels = d.channels
    /\ all_messages = d.messages
    /\ meta = EmptyDict
    /\ idx_val = <<>>
    /\ channel_id = <<>>
    /\ display = <<>>
    /\ group = <<>>
    /\ read_log = <<>>
    /\ stats = EmptyDict

InitStats ==
    \/ \E n \in 0..MaxStamped : \E ts \in [1..n -> Stamps] : Given(StampedStream(ts))
    \/ Given(StampedStream(ExampleStamps))
    \/ \E n \in 0..MaxRanked : \E picks \in [1..n -> RankKinds \X RankCounts] :
          Given(ParsedData(RankInput(picks)))
    \/ \E n \in 0..MaxAtoms : \E text \in [1..n -> TextAtoms] :
          \E cut \in Cuts(text) : Given(TextStream(cut))
    \/ \E nd \in (TopDMs - 1)..(TopDMs + MaxOver) :
       \E ng \in (TopGroupDMs - 1)..(TopGroupDMs + MaxOver) :
       \E ns \in (TopServers - 1)..(TopServers + MaxOver) :
       \E extra \in 0..MaxOver : \E zero \in BOOLEAN :
          Given(ParsedData(BulkInput(nd, ng, ns, extra, zero)))

NextStats == ComputeStats \/ BuildHtml

SpecStats == InitStats /\ [][NextStats]_vars

(***************************************************************************)
(* The channel resolver on its own                                         *)
(***************************************************************************)
MaxPieces == 3

HintPieces == {DMPrefix, <<"a">>, SepIn, <<"#">>, <<"1">>, <<"i", "n">>}

\* "general in My Server" and "Direct Message with Alex#0001"
ExampleGuildHint ==
    <<"g", "e", "n", "e", "r", "a", "l", " ", "i", "n", " ", "M", "y", " ", "S", "e", "r", "v", "e", "r">>

ExampleDMHint ==
    DMPrefix \o <<"A", "l", "e", "x", "#", "0", "0", "0", "1">>

ResolveMetas ==
    {[k \in D |-> f[k]] :
        D \in {X \in SUBSET {"id", "type", "name", "guild"} : "id" \in X},
        f \in [id : {"c"},
               type : {"DM", "GROUP_DM", "GUILD_TEXT", "", NoneType},
               name : {<<>>, <<"g">>},
               guild : {[id |-> "s"], [id |-> "s", name |-> <<"S">>]}]}

InitResolve ==
    /\ pc = "resolve"
    /\ exc = NoExc
    /\ namelist = {}
    /\ index = EmptyDict
    /\ user = EmptyDict
    /\ pending = <<>>
    /\ channels = <<>>
    /\ all_messages = <<>>
    /\ meta \in ResolveMetas
    /\ \/ \E n \in 0..MaxPieces : \E ps \in [1..n -> HintPieces] : idx_val = Concat(ps)
       \/ idx_val \in {ExampleGuildHint, ExampleDMHint}
    /\ channel_id \in ChannelIds
    /\ display = <<>>
    /\ group = <<>>
    /\ read_log = <<>>
    /\ stats = EmptyDict

\* lines 60-83 applied to one channel
ResolveChannel ==
    /\ pc = "resolve"
    /\ display' = Resolve(meta, idx_val, channel_id).display
    /\ group' = Resolve(meta, idx_val, channel_id).group
    /\ pc' = "resolved"
    /\ UNCHANGED <<exc, namelist, index, user, pending, channels, all_messages,
                   meta, idx_val, channel_id, read_log, stats>>

NextResolve == ResolveChannel

SpecResolve == InitResolve /\ [][NextResolve]_vars

(***************************************************************************)
(* Properties                                                              *)
(***************************************************************************)
ChannelCounts == [i \in 1..Len(channels) |-> channels[i].message_count]

\* C1: the total_messages that compute_stats computes from what parse_package
\* returned is the sum of message_count over the channel summaries
C1_TotalIsSumOfChannelCounts ==
    pc = "stats_done" => stats.total_messages = SumSeq(ChannelCounts)

C1_Witness ==
    /\ pc = "stats_done"
    /\ Len(channels) = 2
    /\ channels[1].message_count = 2
    /\ channels[2].message_count = 1
    /\ stats.total_messages = 3

ZeroRanked(r) ==
    /\ r.total_messages = 0 /\ r.total_channels = 0 /\ r.total_dms = 0
    /\ r.total_group_dms = 0 /\ r.total_servers = 0
    /\ r.top_dms = <<>> /\ r.top_group_dms = <<>> /\ r.top_servers = <<>>
    /\ r.top_channels = <<>> /\ r.top_words = <<>> /\ r.top_emoji = <<>>
    /\ r.monthly = <<>> /\ r.yearly = <<>>
    /\ \A i \in 1..24 : r.hourly[i].count = 0
    /\ \A i \in 1..7 : r.daily_dow[i].count = 0
    /\ r.avg_msg_length = 0 /\ r.max_msg_length = 0 /\ r.total_characters = 0
    /\ r.total_words = 0 /\ r.attachment_count = 0
    /\ r.active_days = 0 /\ r.busiest_day_count = 0
    /\ r.first_message = <<>> /\ r.last_message = <<>> /\ r.busiest_day = <<>>
    /\ r.longest_streak_start = <<>>

\* C3: for the empty message stream with zero channels every metric is at
\* its zero/empty value, longest_streak = 0 included
C3_EmptyStreamAllZero ==
    (pc = "stats_done" /\ channels = <<>> /\ all_messages = <<>>)
        => (ZeroRanked(stats) /\ stats.longest_streak = 0)

\* C8: a channel folder whose channel.json is missing or malformed leaves no
\* channel summary and no message; one whose channel.json is read and whose
\* messages.json is missing or malformed is in the channel list with
\* message_count 0 and adds no message; parse_package does not fail on either
LoggedCounts ==
    [i \in 1..Len(read_log) |->
        IF read_log[i].meta = "ok" /\ read_log[i].messages = "ok"
        THEN read_log[i].count ELSE 0]

C8_MissingEntriesDegrade ==
    /\ \A i \in 1..Len(read_log) :
         LET e == read_log[i]
             summaries == {j \in 1..Len(channels) : channels[j].id = Tail(e.cdir)}
         IN  /\ e.meta # "ok" => summaries = {}
             /\ (e.meta = "ok" /\ e.messages \in {"missing", "malformed"})
                   => /\ Cardinality(summaries) = 1
                      /\ \A j \in summaries : channels[j].message_count = 0
    /\ \A c \in ChannelIds :
         MetaName(CDir(c)) \notin namelist
            => \A j \in 1..Len(channels) : channels[j].id # c
    /\ Len(all_messages) = SumSeq(LoggedCounts)
    /\ (pc = "loop" /\ read_log # <<>>) => exc = NoExc

C8_Witness ==
    /\ pc = "parsed"
    /\ Len(read_log) = 2
    /\ read_log[1].meta = "malformed"
    /\ read_log[2].meta = "ok" /\ read_log[2].messages = "malformed"
    /\ Len(channels) = 1 /\ channels[1].message_count = 0
    /\ all_messages = <<>>

\* C9: parse_package does not fail because of the index entry or the user
\* profile entry: when one is missing or unparsable it goes on with the default
C9_OptionalEntriesNeverFail ==
    ~(pc = "raised" /\ exc.at \in {"index.json", "user.json"})

Done == pc = "stats_done"

Finished == pc \in {"stats_done", "raised"}

\* the positions of the stream whose timestamp strptime accepts, whose
\* timestamp is non-empty and rejected, and the dates of the former
ParsablePositions ==
    {i \in 1..Len(all_messages) : Parsable(Timestamp(all_messages[i]))}

UnparsablePositions ==
    {i \in 1..Len(all_messages) :
        Timestamp(all_messages[i]) # <<>> /\ ~Parsable(Timestamp(all_messages[i]))}

ParsableDates == {DateOf(Timestamp(all_messages[i])) : i \in ParsablePositions}

CountSum(list) == SumSeq([i \in 1..Len(list) |-> list[i].count])

\* C2: compute_stats does not raise because of a message whose timestamp is
\* non-empty and unparsable; the message is left out of the time-series
\* metrics and counted in total_messages
C2_UnparsableTimestampTolerated ==
    (Finished /\ UnparsablePositions # {})
        => /\ pc = "stats_done"
           /\ stats.total_messages = Len(all_messages)
           /\ CountSum(stats.hourly) = Cardinality(ParsablePositions)
           /\ stats.active_days = Cardinality(ParsableDates)
           /\ stats.longest_streak <= Cardinality(ParsableDates)
           /\ stats.first_message \in
                 {<<>>} \cup {Timestamp(all_messages[i]) : i \in ParsablePositions}
           /\ stats.busiest_day \in {<<>>} \cup ParsableDates

\* C4: first_message <= last_message when some message has a parsable
\* timestamp; both are the empty string when none has
C4_FirstBeforeLast ==
    Done => IF ParsablePositions # {}
            THEN LexLeq(stats.first_message, stats.last_message)
            ELSE stats.first_message = <<>> /\ stats.last_message = <<>>

\* the day after a calendar date
NextDay(d) ==
    IF d[3] < DaysInMonth(d[1], d[2]) THEN <<d[1], d[2], d[3] + 1>>
    ELSE IF d[2] < 12 THEN <<d[1], d[2] + 1, 1>>
    ELSE <<d[1] + 1, 1, 1>>

RECURSIVE DayAfter(_, _)
\* the date n days after d
DayAfter(d, n) == IF n = 0 THEN d ELSE DayAfter(NextDay(d), n - 1)

\* the n consecutive dates from d on all carry a message
IsRun(dates, d, n) == \A k \in 0..(n - 1) : DayAfter(d, k) \in dates

StreamDates == {DateOf(Timestamp(all_messages[i])) :
                   i \in {j \in 1..Len(all_messages) : Timestamp(all_messages[j]) # <<>>}}

\* C5: when the messages carry valid calendar dates, longest_streak is the
\* length of the longest run of consecutive dates, and longest_streak_start
\* is the first date of the earliest run of that length
C5_LongestStreak ==
    (Done /\ StreamDates # {} /\ \A d \in StreamDates : ValidDate(d))
        => /\ \E d \in StreamDates : IsRun(StreamDates, d, stats.longest_streak)
           /\ \A d \in StreamDates : ~IsRun(StreamDates, d, stats.longest_streak + 1)
           /\ IsRun(StreamDates, stats.longest_streak_start, stats.longest_streak)
           /\ \A d \in StreamDates :
                 IsRun(StreamDates, d, stats.longest_streak)
                    => LexLeq(stats.longest_streak_start, d)

C5_Witness ==
    /\ Done
    /\ StreamDates = {<<2024, 1, 1>>, <<2024, 1, 2>>, <<2024, 1, 3>>, <<2024, 1, 5>>}
    /\ stats.longest_streak = 3
    /\ stats.longest_streak_start = <<2024, 1, 1>>

\* C7: hourly has the 24 entries 0..23 in order and daily_dow the 7 entries
\* Mon..Sun in order; the counts of each sum to the number of messages whose
\* timestamp parses
C7_FullBuckets ==
    Done => /\ Len(stats.hourly) = 24
            /\ \A i \in 1..24 : stats.hourly[i].key = i - 1
            /\ Len(stats.daily_dow) = 7
            /\ [i \in 1..7 |-> stats.daily_dow[i].key]
                  = <<"Mon", "Tue", "Wed", "Thu", "Fri", "Sat", "Sun">>
            /\ CountSum(stats.hourly) = Cardinality(ParsablePositions)
            /\ CountSum(stats.daily_dow) = Cardinality(ParsablePositions)

C7_Witness ==
    /\ Done
    /\ Cardinality(ParsablePositions) = 2
    /\ UnparsablePositions # {}
    /\ Len(all_messages) = 4
    /\ stats.hourly[1].count = 1
    /\ stats.hourly[24].count = 1
    /\ stats.daily_dow[3].count = 1

\* a ranking list is in non-increasing order of count, and entries of one
\* count are in non-decreasing order of Key
Ranked(list, Key(_)) ==
    \A i, j \in 1..Len(list) :
        i < j => \/ list[i].count > list[j].count
                 \/ list[i].count = list[j].count /\ Key(list[i]) <= Key(list[j])

Least(S) == CHOOSE x \in S : \A y \in S : x <= y

\* where a channel with this name and count of the given types comes first
FirstChannel(e, types, guild) ==
    Least({i \in 1..Len(channels) :
              /\ channels[i].name = e.name
              /\ channels[i].message_count = e.count
              /\ IF guild THEN IsGuildType(channels[i].type) ELSE channels[i].type \in types})

\* where the first channel of a server comes
FirstOfServer(e) ==
    Least({i \in 1..Len(channels) :
              IsGuildType(channels[i].type) /\ channels[i].group = e.name})

\* the atoms of the stream in reading order, each with its message and place
StreamAtoms ==
    Concat([m \in 1..Len(all_messages) |->
               [a \in 1..Len(Contents(all_messages[m])) |->
                   [msg |-> m, at |-> a, atom |-> Contents(all_messages[m])[a]]]])

\* the words of the stream in reading order
StreamWords == Concat([i \in 1..Len(StreamAtoms) |-> WordsIn(StreamAtoms[i].atom)])

\* where a word first occurs in the stream
FirstWord(e) == Least({i \in 1..Len(StreamWords) : StreamWords[i] = e.key})

IsUnicodeEmoji(tok) == tok \in {"U+1F600", "U+1F525"}

\* where an emoji first occurs in the text of the stream
FirstEmojiInText(e) ==
    Least({i \in 1..Len(StreamAtoms) :
              e.key \in Range(UnicodeEmojiIn(StreamAtoms[i].atom))
                          \cup Range(CustomEmojiIn(StreamAtoms[i].atom))})

\* where an emoji is first counted: message by message, and inside one
\* message the Unicode emoji before the custom emoji
FirstEmojiCounted(e) ==
    LET i == FirstEmojiInText(e)
        width == Len(StreamAtoms) + 1
    IN  (StreamAtoms[i].msg * 2 + (IF IsUnicodeEmoji(e.key) THEN 0 ELSE 1)) * width + i

ChannelRankingsOrdered ==
    /\ LET Key(e) == FirstChannel(e, {"DM"}, FALSE) IN Ranked(stats.top_dms, Key)
    /\ LET Key(e) == FirstChannel(e, {"GROUP_DM"}, FALSE) IN Ranked(stats.top_group_dms, Key)
    /\ Ranked(stats.top_servers, FirstOfServer)
    /\ LET Key(e) == FirstChannel(e, {}, TRUE) IN Ranked(stats.top_channels, Key)

\* C6 as stated: every ranking list is in non-increasing order of count and
\* entries of one count are in the order of their first occurrence: channel
\* order, first channel of the server, first occurrence in the message stream
\* for words and for emoji
C6_RankingsByFirstOccurrence ==
    Done => /\ ChannelRankingsOrdered
            /\ Ranked(stats.top_words, FirstWord)
            /\ Ranked(stats.top_emoji, FirstEmojiInText)

\* C6 amended: as above, the emoji of one count being in the order in which
\* they were first counted, which inside one message puts every Unicode
\* emoji before every custom emoji
C6_RankingsByFirstCounted ==
    Done => /\ ChannelRankingsOrdered
            /\ Ranked(stats.top_words, FirstWord)
            /\ Ranked(stats.top_emoji, FirstEmojiCounted)

C6_Witness ==
    /\ Done
    /\ Len(all_messages) = 1
    /\ Contents(all_messages[1]) = <<":custom_emoji:", "U+1F600">>
    /\ stats.top_emoji = <<[key |-> "U+1F600", count |-> 1],
                           [key |-> ":custom_emoji:", count |-> 1]>>
    /\ stats.top_words = <<[key |-> "custom", count |-> 1], [key |-> "emoji", count |-> 1]>>

\* C10: for a channel that is neither DM nor GROUP_DM, a hint containing
\* " in " gives display "#" + the text before its first " in " and group the
\* text after it, whatever the metadata; any other hint gives display "#" +
\* raw name ("#" + channel id when the raw name is empty) and group the guild
\* name if present, else "Unknown Server"
SepAt(hint, k) == k + 3 <= Len(hint) /\ SubSeq(hint, k, k + 3) = <<" ", "i", "n", " ">>

HasGuildName(m) ==
    /\ "guild" \in DOMAIN m
    /\ "name" \in DOMAIN m.guild
    /\ m.guild.name # <<>>

HasRawName(m) == "name" \in DOMAIN m /\ m.name # <<>>

IsGuildChannel(m) == "type" \notin DOMAIN m \/ m.type \notin {"DM", "GROUP_DM"}

C10_GuildChannelResolution ==
    (pc = "resolved" /\ IsGuildChannel(meta))
        => IF \E k \in 1..Len(idx_val) : SepAt(idx_val, k)
           THEN \E k \in 1..Len(idx_val) :
                   /\ SepAt(idx_val, k)
                   /\ \A j \in 1..(k - 1) : ~SepAt(idx_val, j)
                   /\ display = <<"#">> \o SubSeq(idx_val, 1, k - 1)
                   /\ group = SubSeq(idx_val, k + 4, Len(idx_val))
           ELSE /\ display = <<"#">> \o (IF HasRawName(meta) THEN meta.name ELSE channel_id)
                /\ group = (IF HasGuildName(meta) THEN meta.guild.name ELSE UnknownServer)

C10_Witness ==
    /\ pc = "resolved"
    /\ meta = [id |-> "c", type |-> "GUILD_TEXT", name |-> <<"g">>,
               guild |-> [id |-> "s", name |-> <<"S">>]]
    /\ idx_val = ExampleGuildHint
    /\ display = <<"#", "g", "e", "n", "e", "r", "a", "l">>
    /\ group = <<"M", "y", " ", "S", "e", "r", "v", "e", "r">>

IsDM(m) == "type" \in DOMAIN m /\ m.type = "DM"

HasDMPrefix(hint) ==
    Len(hint) >= Len(DMPrefix) /\ SubSeq(hint, 1, Len(DMPrefix)) = DMPrefix

\* the hint is "Direct Message with " + its next k characters (the name) +
\* either nothing or "#" and digits only
DMFormAt(hint, k) ==
    /\ HasDMPrefix(hint)
    /\ k \in 1..(Len(hint) - Len(DMPrefix))
    /\ LET suffix == SubSeq(hint, Len(DMPrefix) + k + 1, Len(hint))
       IN  \/ suffix = <<>>
           \/ /\ Len(suffix) >= 2
              /\ suffix[1] = "#"
              /\ \A i \in 2..Len(suffix) : suffix[i] \in Digits

\* C11: a DM channel has group "Direct Messages"; a hint of the form
\* "Direct Message with <name>" optionally followed by "#<digits>" gives the
\* name without that suffix; any other hint gives the hint with the prefix
\* "Direct Message with " removed, or the hint itself when it does not start
\* with that prefix
C11_DMResolution ==
    (pc = "resolved" /\ IsDM(meta))
        => /\ group = DirectMessages
           /\ IF \E k \in 1..Len(idx_val) : DMFormAt(idx_val, k)
              THEN \E k \in 1..Len(idx_val) :
                      /\ DMFormAt(idx_val, k)
                      /\ \A j \in 1..(k - 1) : ~DMFormAt(idx_val, j)
                      /\ display = SubSeq(idx_val, Len(DMPrefix) + 1, Len(DMPrefix) + k)
              ELSE IF HasDMPrefix(idx_val)
              THEN display = SubSeq(idx_val, Len(DMPrefix) + 1, Len(idx_val))
              ELSE display = idx_val

\* the channel folders whose channel.json was read, in the order of the reads
Retained ==
    LET Kept(e) == e.meta = "ok"
    IN  SelectSeq(read_log, Kept)

\* the number of messages read from the retained channels before the i-th
MessagesBefore(i) == SumSeq([k \in 1..(i - 1) |-> Len(Retained[k].docs)])

\* C12: the stream parse_package returns is the retained channels' message
\* lists one after the other, the channels in ascending order of their ids
\* (compared as the strings they are), each list in its own order, and every
\* message is the message read plus the display name, group and type resolved
\* for its channel
C12_StreamIsTaggedConcatenation ==
    pc = "parsed"
        => /\ {read_log[i].cdir : i \in 1..Len(read_log)} = channel_dirs
           /\ \A i \in 1..(Len(read_log) - 1) :
                 StrLess(Tail(read_log[i].cdir), Tail(read_log[i + 1].cdir))
           /\ Len(all_messages) = MessagesBefore(Len(Retained) + 1)
           /\ \A i \in 1..Len(Retained) : \A j \in 1..Len(Retained[i].docs) :
                 LET msg == all_messages[MessagesBefore(i) + j]
                     src == Retained[i].docs[j]
                     cid == Tail(Retained[i].cdir)
                     r   == Resolve(Retained[i].doc, Get(index, cid, <<>>), cid)
                 IN  /\ DOMAIN msg = DOMAIN src \cup {"_channel", "_group", "_type"}
                     /\ \A k \in DOMAIN src : msg[k] = src[k]
                     /\ msg["_channel"] = r.display
                     /\ msg["_group"] = r.group
                     /\ msg["_type"] = ChType(Retained[i].doc)

C12_Witness ==
    /\ pc = "parsed"
    /\ Len(Retained) = 2
    /\ Retained[1].cdir = <<"c", "1", "0">> /\ ChType(Retained[1].doc) = "DM"
    /\ Retained[2].cdir = <<"c", "9">> /\ ChType(Retained[2].doc) = "GUILD_TEXT"
    /\ Len(all_messages) = 3
    /\ Contents(all_messages[1]) = <<"yo">> /\ all_messages[1]["_type"] = "DM"
    /\ Contents(all_messages[2]) = <<>> /\ all_messages[2]["_group"] = DirectMessages
    /\ Contents(all_messages[3]) = <<"yo">> /\ all_messages[3]["_channel"] = <<"#", "g">>

\* C13: every message of the stream parse_package returns carries a
\* non-empty channel type, whatever the type field of the channel's metadata
\* (absent, empty, null)
C13_TypeTagNonEmpty ==
    pc = "parsed"
        => \A i \in 1..Len(all_messages) :
              /\ "_type" \in DOMAIN all_messages[i]
              /\ all_messages[i]["_type"] \notin {"", NoneType}

Min(a, b) == IF a < b THEN a ELSE b

\* positions of the channel summaries that qualify for a ranking
QualifyingDMs ==
    {i \in 1..Len(channels) : channels[i].type = "DM" /\ channels[i].message_count > 0}

QualifyingGroupDMs ==
    {i \in 1..Len(channels) :
        channels[i].type = "GROUP_DM" /\ channels[i].message_count > 0}

ServerChannels ==
    {i \in 1..Len(channels) : channels[i].type \notin {"DM", "GROUP_DM"}}

QualifyingChannels == {i \in ServerChannels : channels[i].message_count > 0}

\* message_count summed over the server channels of group g
GroupTotal(g) ==
    SumSeq([i \in 1..Len(channels) |->
              IF i \in ServerChannels /\ channels[i].group = g
              THEN channels[i].message_count ELSE 0])

QualifyingServers == {g \in {channels[i].group : i \in ServerChannels} : GroupTotal(g) > 0}

\* C14: the four channel rankings hold only entries with count > 0 of their
\* type, exactly min(cap, number qualifying) of them with caps 25, 15, 20 and
\* 20, and the count of a top_servers entry is the message_count summed over
\* all server channels of that group
C14_RankingsFilteredAndCapped ==
    Done =>
      /\ Len(stats.top_dms) = Min(TopDMs, Cardinality(QualifyingDMs))
      /\ \A k \in 1..Len(stats.top_dms) :
            /\ stats.top_dms[k].count > 0
            /\ \E i \in QualifyingDMs :
                  stats.top_dms[k] = [name |-> channels[i].name,
                                      count |-> channels[i].message_count]
      /\ Len(stats.top_group_dms) = Min(TopGroupDMs, Cardinality(QualifyingGroupDMs))
      /\ \A k \in 1..Len(stats.top_group_dms) :
            /\ stats.top_group_dms[k].count > 0
            /\ \E i \in QualifyingGroupDMs :
                  stats.top_group_dms[k] = [name |-> channels[i].name,
                                            count |-> channels[i].message_count]
      /\ Len(stats.top_channels) = Min(TopChannels, Cardinality(QualifyingChannels))
      /\ \A k \in 1..Len(stats.top_channels) :
            /\ stats.top_channels[k].count > 0
            /\ \E i \in QualifyingChannels :
                  stats.top_channels[k] = [name |-> channels[i].name,
                                           server |-> channels[i].group,
                                           count |-> channels[i].message_count]
      /\ Len(stats.top_servers) = Min(TopServers, Cardinality(QualifyingServers))
      /\ \A k \in 1..Len(stats.top_servers) :
            /\ stats.top_servers[k].count > 0
            /\ stats.top_servers[k].name \in QualifyingServers
            /\ stats.top_servers[k].count = GroupTotal(stats.top_servers[k].name)
            /\ \A j \in 1..(k - 1) : stats.top_servers[j].name # stats.top_servers[k].name

C14_Witness ==
    /\ Done
    /\ Cardinality(QualifyingDMs) > TopDMs /\ Len(stats.top_dms) = TopDMs
    /\ Cardinality(QualifyingGroupDMs) > TopGroupDMs
    /\ Len(stats.top_group_dms) = TopGroupDMs
    /\ Cardinality(QualifyingChannels) > TopChannels
    /\ Len(stats.top_channels) = TopChannels
    /\ Cardinality(QualifyingServers) > TopServers
    /\ Len(stats.top_servers) = TopServers
    /\ Cardinality(ServerChannels) > Cardinality(QualifyingServers)
    /\ stats.top_servers[1].count = 3

\* C15: for a stream without a parsable timestamp, the empty stream included,
\* compute_stats gives 0 for night, morning, afternoon and evening and
\* build_html then produces the report without a division by zero
C15_NoTimestampNoDivisionByZero ==
    ParsablePositions = {}
        => /\ pc \in {"stats_done", "report_done"}
                => stats.time_of_day = [night |-> 0, morning |-> 0,
                                        afternoon |-> 0, evening |-> 0]
           /\ ~(pc = "raised" /\ exc = [type |-> "ZeroDivisionError", at |-> "build_html"])

====
